---- MODULE Spec2Model ----
(***************************************************************************)
(* Model of server/mcp-weather-server.ts: an MCP tool server whose two     *)
(* tools fetch a paid upstream resource through an axios client wrapped    *)
(* by the x402 payment interceptor.                                        *)
(*                                                                         *)
(* The process is modelled from module load (secret check, signer          *)
(* construction, tool registration, connect) to the serving state, where   *)
(* the host may dispatch tool invocations concurrently.  The two library   *)
(* calls the handlers rest on are modelled by their contracts at the call  *)
(* site: axios.create({baseURL, timeout}) keeps axios' default             *)
(* validateStatus (only 2xx resolves, everything else rejects with an      *)
(* AxiosError carrying the response), and wrapAxiosWithPayment installs a  *)
(* response-error interceptor that, on a first 402, builds a payment       *)
(* payload and re-issues the request once (the request config is marked    *)
(* as a retry), rejecting with its own plain Error when the payload        *)
(* cannot be built.                                                        *)
(***************************************************************************)
EXTENDS Integers, Sequences, FiniteSets, TLC

VARIABLES env, pc, registry, tools, exitCode, inv

vars == <<env, pc, registry, tools, exitCode, inv>>

(***************************************************************************)
(* Bounds                                                                  *)
(***************************************************************************)
\* number of invocation slots the host may have in flight at once
MaxInv == 1

\* number of invocations in flight at once in the concurrent specification
MaxConc == 2

Invs == 1..MaxInv
ConcInvs == 1..MaxConc

(***************************************************************************)
(* Values                                                                  *)
(***************************************************************************)
\* upstream.status: number | null
NullStatus == -1
Null == "null"
Undefined == "undefined"

Families == {"evm", "svm"}
ToolNames == {"get-weather", "get-data-from-resource-server"}

\* process.env.EVM_PRIVATE_KEY / SVM_PRIVATE_KEY
KeyStates == {"unset", "empty", "valid", "malformed"}

\* process.env.REQUEST_TIMEOUT_MS: not set, or set to "0"
TimeoutStates == {"unset", "0"}

\* Number(process.env.REQUEST_TIMEOUT_MS ?? 15000)
requestTimeoutMs(e) == IF e.timeout = "unset" THEN 15000 ELSE 0

\* JavaScript truthiness of an optional string
Truthy(k) == k \in {"valid", "malformed"}

baseURL == "http://localhost:4021"
endpointPath == "/weather"

(***************************************************************************)
(* Response headers: a map is a set of <<name, value>> pairs with distinct *)
(* names; a value is a string, an array or some other type.                *)
(***************************************************************************)
StrVal(s) == [kind |-> "str", items |-> <<s>>]
ArrVal(q) == [kind |-> "arr", items |-> q]
UndefVal == [kind |-> "undef", items |-> <<>>]

PaymentKeys == {"payment-response", "Payment-Response", "PAYMENT-RESPONSE"}
XPaymentKeys == {"x-payment-response", "X-Payment-Response", "X-PAYMENT-RESPONSE"}
HeaderKeys == PaymentKeys \cup XPaymentKeys

\* String.prototype.toLowerCase on the header names in use
toLowerCase(k) ==
  IF k \in PaymentKeys THEN "payment-response" ELSE "x-payment-response"

\* String.prototype.toUpperCase on the header names in use
toUpperCase(k) ==
  IF k \in PaymentKeys THEN "PAYMENT-RESPONSE" ELSE "X-PAYMENT-RESPONSE"

\* map[k]: the value stored under exactly the name k, else undefined
Lookup(map, k) ==
  IF \E p \in map : p[1] = k
    THEN (CHOOSE p \in map : p[1] = k)[2]
    ELSE UndefVal

\* a ?? b
Coalesce(a, b) == IF a = UndefVal THEN b ELSE a

getHeaderValue(headers, key) ==
  IF ~headers.defined THEN Undefined
  ELSE LET direct == Coalesce(Lookup(headers.map, key),
                       Coalesce(Lookup(headers.map, toLowerCase(key)),
                                Lookup(headers.map, toUpperCase(key))))
       IN IF direct.kind = "arr"
            THEN IF Len(direct.items) > 0 THEN direct.items[1] ELSE Undefined
            ELSE IF direct.kind = "str" THEN direct.items[1] ELSE Undefined

\* x ?? null for a string | undefined
OrNull(s) == IF s = Undefined THEN Null ELSE s

HeaderMaps ==
  {{}} \cup {{<<k, StrVal("r1")>>} : k \in HeaderKeys}
       \cup {{<<"payment-response", ArrVal(<<"r1", "r2">>)>>}}

(***************************************************************************)
(* Bodies and upstream outcomes                                            *)
(***************************************************************************)
Body(v) == [kind |-> "body", v |-> v]
Message(m) == [kind |-> "message", v |-> m]
NoBody == [kind |-> "undefined", v |-> ""]

ChallengeBody(f) == Body(IF f = "evm" THEN "challenge:evm" ELSE "challenge:svm")

\* the scheme family a 402 body names
ChallengeFamily(data) == IF data = ChallengeBody("evm") THEN "evm" ELSE "svm"

Response(s, h, d) ==
  [kind |-> "response", status |-> s, headers |-> h, data |-> d, message |-> ""]

TransportError(m) ==
  [kind |-> "error", status |-> NullStatus, headers |-> {}, data |-> NoBody,
   message |-> m]

\* axios' rejection of an attempt whose timer has run out
TimeoutError == TransportError("timeout of 15000ms exceeded")

\* everything the upstream (or the network) may answer one call with
Outcomes ==
  {Response(200, h, Body("temp21")) : h \in HeaderMaps}
    \cup {Response(200, {}, Body("Cyclic")), Response(204, {}, NoBody)}
    \cup {Response(404, {}, Body("not found")),
          Response(404, {<<"payment-response", StrVal("r1")>>}, Body("not found")),
          Response(500, {}, NoBody),
          Response(500, {}, Body("Cyclic"))}
    \cup {Response(402, {}, ChallengeBody(f)) : f \in Families}
    \cup {TimeoutError,
          TransportError("connect ECONNREFUSED")}

NoOutcome ==
  [kind |-> "none", status |-> NullStatus, headers |-> {}, data |-> NoBody,
   message |-> ""]

(***************************************************************************)
(* axios: settling one attempt                                             *)
(***************************************************************************)
\* a client configured to resolve every status
validateStatusAny(s) == TRUE

\* axios' default validateStatus, kept by axios.create({baseURL, timeout})
validateStatus(s) == s >= 200 /\ s < 300

\* an Error value as the handler's catch sees it
AxiosError(o, m) == [isAxios |-> TRUE, response |-> o, message |-> m]
PlainError(m) == [isAxios |-> FALSE, response |-> NoOutcome, message |-> m]
NoError == [isAxios |-> FALSE, response |-> NoOutcome, message |-> ""]

HasResponse(e) == e.response.kind = "response"

\* the promise of one attempt: resolved with the response, or rejected
Settle(o) ==
  IF o.kind = "response" /\ validateStatus(o.status)
    THEN [resolved |-> TRUE, response |-> o, error |-> NoError]
    ELSE [resolved |-> FALSE, response |-> NoOutcome,
          error |-> AxiosError(IF o.kind = "response" THEN o ELSE NoOutcome,
                               IF o.kind = "response"
                                 THEN "Request failed with status code"
                                 ELSE o.message)]

\* String(error) of a plain Error
String(e) ==
  IF e.message = "Failed to create payment payload"
    THEN "Error: Failed to create payment payload"
    ELSE IF e.message = "Converting circular structure to JSON"
      THEN "TypeError: Converting circular structure to JSON"
      ELSE "Error"

(***************************************************************************)
(* Requests                                                                *)
(***************************************************************************)
Absent == "absent"
Cities == {"Beijing"}
Dates == {Undefined, "2026-02-13"}

NoProof == [family |-> "none", challenge |-> ""]

\* a client whose payment header sits on the shared instance: a new request
\* goes out with the proof some invocation in flight has produced
WireRequestSharedProof(tool, city, date) ==
  [method |-> "GET", path |-> endpointPath,
   city |-> IF tool = "get-weather" THEN city ELSE Absent,
   date |-> IF tool = "get-weather" THEN date ELSE Absent,
   body |-> Absent,
   proof |-> IF \E j \in DOMAIN inv : inv[j].proofs # <<>>
               THEN inv[CHOOSE j \in DOMAIN inv : inv[j].proofs # <<>>].proofs[1]
               ELSE NoProof]

\* the outbound request of a tool call: api.get(endpointPath, {params})
WireRequest(tool, city, date) ==
  [method |-> "GET", path |-> endpointPath,
   city |-> IF tool = "get-weather" THEN city ELSE Absent,
   date |-> IF tool = "get-weather" THEN date ELSE Absent,
   body |-> Absent,
   proof |-> NoProof]

\* the request section of the envelope
RequestEnvelope(tool, city, date) ==
  IF tool = "get-weather"
    THEN [tool |-> tool, city |-> city,
          date |-> IF date = Undefined THEN Null ELSE date]
    ELSE [tool |-> tool, city |-> Absent, date |-> Absent]

NoRequest == [tool |-> "none", city |-> Absent, date |-> Absent]

\* the arguments a handler is called with: { city, date } for get-weather
\* (date undefined when omitted), none for get-data-from-resource-server
Args(tool, city, date) ==
  [tool |-> tool,
   city |-> IF tool = "get-weather" THEN city ELSE Absent,
   date |-> IF tool = "get-weather" THEN date ELSE Absent]

\* the request section as the try branch writes it
SuccessRequest(args) == RequestEnvelope(args.tool, args.city, args.date)

\* a catch branch that echoes the date as it came, without `?? null`
FailureRequestRawDate(args) == args

\* the request section as the catch branch writes it
FailureRequest(args) == RequestEnvelope(args.tool, args.city, args.date)

(***************************************************************************)
(* Result Envelope (RawToolResult) and its serialization                   *)
(***************************************************************************)
Envelope(ok, req, status, pr, xpr, data) ==
  [ok |-> ok,
   source |-> [url |-> baseURL, path |-> endpointPath],
   request |-> req,
   upstream |-> [status |-> status,
                 payment_response_header |-> pr,
                 x_payment_response_header |-> xpr,
                 data |-> data]]

NoEnvelope == Envelope(FALSE, NoRequest, NullStatus, Null, Null, NoBody)

\* response.headers / error.response?.headers as getHeaderValue receives it
HeadersOf(o) == [defined |-> o.kind = "response", map |-> o.headers]

\* the try branch: the envelope of a resolved response (response.status ?? 200)
SuccessEnvelope(req, response) ==
  Envelope(TRUE, SuccessRequest(req),
           IF response.status = NullStatus THEN 200 ELSE response.status,
           OrNull(getHeaderValue(HeadersOf(response), "payment-response")),
           OrNull(getHeaderValue(HeadersOf(response), "x-payment-response")),
           response.data)

\* a catch branch that reads the body only, without the message fallback
FailureEnvelopeNoMessage(req, error) ==
  Envelope(FALSE, FailureRequest(req),
           IF error.isAxios /\ HasResponse(error)
             THEN error.response.status ELSE NullStatus,
           IF error.isAxios
             THEN OrNull(getHeaderValue(HeadersOf(error.response), "payment-response"))
             ELSE Null,
           IF error.isAxios
             THEN OrNull(getHeaderValue(HeadersOf(error.response), "x-payment-response"))
             ELSE Null,
           IF error.isAxios THEN error.response.data ELSE Message(String(error)))

\* a catch branch that never reads the status of the error's response
FailureEnvelopeNoStatus(req, error) ==
  Envelope(FALSE, FailureRequest(req), NullStatus,
           IF error.isAxios
             THEN OrNull(getHeaderValue(HeadersOf(error.response), "payment-response"))
             ELSE Null,
           IF error.isAxios
             THEN OrNull(getHeaderValue(HeadersOf(error.response), "x-payment-response"))
             ELSE Null,
           IF error.isAxios
             THEN IF HasResponse(error) /\ error.response.data # NoBody
                    THEN error.response.data
                    ELSE Message(error.message)
             ELSE Message(String(error)))

\* the catch branch: the envelope of a caught error
FailureEnvelope(req, error) ==
  Envelope(FALSE, FailureRequest(req),
           IF error.isAxios /\ HasResponse(error)
             THEN error.response.status ELSE NullStatus,
           IF error.isAxios
             THEN OrNull(getHeaderValue(HeadersOf(error.response), "payment-response"))
             ELSE Null,
           IF error.isAxios
             THEN OrNull(getHeaderValue(HeadersOf(error.response), "x-payment-response"))
             ELSE Null,
           IF error.isAxios
             THEN IF HasResponse(error) /\ error.response.data # NoBody
                    THEN error.response.data
                    ELSE Message(error.message)
             ELSE Message(String(error)))

\* JSON.stringify throws on a value that holds a reference cycle
Serializable(e) == e.upstream.data # Body("Cyclic")

\* JSON.stringify(value, null, 2): a property whose value is undefined is left out
JsonText(e) ==
  [valid |-> TRUE, fallback |-> FALSE,
   doc |-> IF e.upstream.data = NoBody
             THEN [e EXCEPT !.upstream.data = [kind |-> "omitted", v |-> ""]]
             ELSE e]

\* the rendering of { error: "Failed to serialize response" }
FallbackText == [valid |-> TRUE, fallback |-> TRUE, doc |-> NoEnvelope]
NoText == [valid |-> FALSE, fallback |-> FALSE, doc |-> NoEnvelope]

\* a serializer whose catch returns nothing readable instead of the fallback
safeJsonStringifyEmpty(value) ==
  IF Serializable(value)
    THEN [threw |-> FALSE, text |-> JsonText(value)]
    ELSE [threw |-> FALSE, text |-> NoText]

\* a serializer without the try/catch: the exception leaves the function
safeJsonStringifyNoCatch(value) ==
  IF Serializable(value)
    THEN [threw |-> FALSE, text |-> JsonText(value)]
    ELSE [threw |-> TRUE, text |-> NoText]

safeJsonStringify(value) ==
  IF Serializable(value)
    THEN [threw |-> FALSE, text |-> JsonText(value)]
    ELSE [threw |-> FALSE, text |-> FallbackText]

toRawOutput(result) == safeJsonStringify(result)

(***************************************************************************)
(* The tool handler around `await api.get(...)`: what the host receives    *)
(* once the wrapped client's promise has settled.                          *)
(***************************************************************************)
HandlerCatch(req, error) ==
  LET result == FailureEnvelope(req, error)
      out == toRawOutput(result)
  IN [result |-> result, text |-> out.text, returned |-> ~out.threw,
      thrown |-> out.threw]

HandlerTry(req, response) ==
  LET result == SuccessEnvelope(req, response)
      out == toRawOutput(result)
  IN IF out.threw
       THEN HandlerCatch(req, PlainError("Converting circular structure to JSON"))
       ELSE [result |-> result, text |-> out.text, returned |-> TRUE,
             thrown |-> FALSE]

Handler(req, settled) ==
  IF settled.resolved
    THEN HandlerTry(req, settled.response)
    ELSE HandlerCatch(req, settled.error)

(***************************************************************************)
(* State                                                                   *)
(*   env       the two secrets of process.env                              *)
(*   pc        position of the process: load, main, evmDone, svmDone,      *)
(*             clientReady, weatherTool, dataTool, serving, crashed, exited*)
(*   registry  the families registered on the x402 client                  *)
(*   tools     the tools registered on the MCP server                      *)
(*   exitCode  the exit status once the process has ended                  *)
(*   inv       one record per invocation slot                              *)
(***************************************************************************)
IdleInv ==
  [st |-> "idle", req |-> NoRequest, sent |-> <<>>, isRetry |-> FALSE,
   first |-> NoOutcome, last |-> NoOutcome, negs |-> 0, proofs |-> <<>>,
   negError |-> FALSE, result |-> NoEnvelope, text |-> NoText,
   returned |-> 0, thrown |-> FALSE]

Terminal == {"Succeeded", "Failed"}

Init ==
  /\ env \in [evm : KeyStates, svm : KeyStates, timeout : TimeoutStates]
  /\ pc = "load"
  /\ registry = {}
  /\ tools = {}
  /\ exitCode = 0
  /\ inv = [i \in Invs |-> IdleInv]

(***************************************************************************)
(* Startup                                                                 *)
(***************************************************************************)
\* a module top level without the secret check
LoadNoCheck ==
  /\ pc = "load"
  /\ pc' = "main"
  /\ UNCHANGED <<env, registry, tools, exitCode, inv>>

\* module top level: the secret check, then main() is called
Load ==
  /\ pc = "load"
  /\ IF ~Truthy(env.evm) /\ ~Truthy(env.svm)
       THEN pc' = "crashed" /\ exitCode' = 1
       ELSE pc' = "main" /\ exitCode' = exitCode
  /\ UNCHANGED <<env, registry, tools, inv>>

\* createPaidHttpClient: the EVM signer
RegisterEvm ==
  /\ pc = "main"
  /\ IF Truthy(env.evm)
       THEN IF env.evm = "valid"
              THEN pc' = "evmDone" /\ registry' = registry \cup {"evm"}
                   /\ exitCode' = exitCode
              ELSE pc' = "exited" /\ exitCode' = 1 /\ registry' = registry
       ELSE pc' = "evmDone" /\ UNCHANGED <<registry, exitCode>>
  /\ UNCHANGED <<env, tools, inv>>

\* an SVM registration that swallows the construction failure and goes on
RegisterSvmSwallow ==
  /\ pc = "evmDone"
  /\ pc' = "svmDone"
  /\ registry' = IF env.svm = "valid" THEN registry \cup {"svm"} ELSE registry
  /\ UNCHANGED <<env, tools, exitCode, inv>>

\* createPaidHttpClient: the SVM signer
RegisterSvm ==
  /\ pc = "evmDone"
  /\ IF Truthy(env.svm)
       THEN IF env.svm = "valid"
              THEN pc' = "svmDone" /\ registry' = registry \cup {"svm"}
                   /\ exitCode' = exitCode
              ELSE pc' = "exited" /\ exitCode' = 1 /\ registry' = registry
       ELSE pc' = "svmDone" /\ UNCHANGED <<registry, exitCode>>
  /\ UNCHANGED <<env, tools, inv>>

\* createPaidHttpClient: wrapAxiosWithPayment(axios.create(...), client)
WrapClient ==
  /\ pc = "svmDone"
  /\ pc' = "clientReady"
  /\ UNCHANGED <<env, registry, tools, exitCode, inv>>

RegisterWeatherTool ==
  /\ pc = "clientReady"
  /\ tools' = tools \cup {"get-weather"}
  /\ pc' = "weatherTool"
  /\ UNCHANGED <<env, registry, exitCode, inv>>

RegisterDataTool ==
  /\ pc = "weatherTool"
  /\ tools' = tools \cup {"get-data-from-resource-server"}
  /\ pc' = "dataTool"
  /\ UNCHANGED <<env, registry, exitCode, inv>>

Connect ==
  /\ pc = "dataTool"
  /\ pc' = "serving"
  /\ UNCHANGED <<env, registry, tools, exitCode, inv>>

(***************************************************************************)
(* One invocation                                                          *)
(***************************************************************************)
\* the state of slot i once the awaited api.get has settled
Finish(r, settled) ==
  LET h == Handler(r.req, settled)
  IN [r EXCEPT !.st = IF h.result.ok THEN "Succeeded" ELSE "Failed",
               !.result = h.result,
               !.text = h.text,
               !.returned = r.returned + (IF h.returned THEN 1 ELSE 0),
               !.thrown = h.thrown]

\* the host calls a tool: the handler issues the original request
Invoke(i, tool, city, date) ==
  /\ pc = "serving"
  /\ tool \in tools
  /\ inv[i].st = "idle"
  /\ inv' = [inv EXCEPT ![i] =
       [IdleInv EXCEPT !.st = "Sending",
                       !.req = Args(tool, city, date),
                       !.sent = <<WireRequest(tool, city, date)>>]]
  /\ UNCHANGED <<env, pc, registry, tools, exitCode>>

\* an interceptor whose retry mark sits on the shared client, not on the
\* request: a 402 is no challenge while any invocation is retrying
IsChallengeSharedMark(r, error) ==
  /\ HasResponse(error)
  /\ error.response.status = 402
  /\ ~\E j \in DOMAIN inv : inv[j].isRetry

\* an interceptor that takes every error response as a payment challenge
IsChallengeAnyStatus(r, error) ==
  /\ HasResponse(error)
  /\ ~r.isRetry

\* an interceptor without the retry mark: every 402 is taken as a challenge
IsChallengeNoRetryMark(r, error) ==
  /\ HasResponse(error)
  /\ error.response.status = 402

\* the interceptor's test on a rejected attempt: a first 402 is a challenge
IsChallenge(r, error) ==
  /\ HasResponse(error)
  /\ error.response.status = 402
  /\ ~r.isRetry

\* an interceptor that answers a paid retry with the response it kept
InterceptedOriginal(r, settled) ==
  IF r.isRetry /\ settled.resolved
    THEN [resolved |-> TRUE, response |-> r.first, error |-> NoError]
    ELSE settled

\* what the wrapped client's promise settles with when no negotiation starts:
\* response => response, Promise.reject(error), return secondResponse
Intercepted(r, settled) == settled

\* axios arms the timer of an attempt only for a timeout above zero
TimeoutArmed == requestTimeoutMs(env) > 0

\* an attempt (the original or the retry) settles with outcome o
Receive(i, o) ==
  /\ inv[i].st \in {"Sending", "Retrying"}
  /\ o = TimeoutError => TimeoutArmed
  /\ LET r == [inv[i] EXCEPT !.last = o,
                             !.first = IF inv[i].st = "Sending" THEN o ELSE @]
         settled == Settle(o)
     IN inv' = [inv EXCEPT ![i] =
          IF ~settled.resolved /\ IsChallenge(r, settled.error)
            THEN [r EXCEPT !.st = "PaymentRequired"]
            ELSE Finish(r, Intercepted(r, settled))]
  /\ UNCHANGED <<env, pc, registry, tools, exitCode>>

\* a negotiation that registers the challenge's family on the client on demand
BeginNegotiationRegisters(i) ==
  /\ inv[i].st = "PaymentRequired"
  /\ inv' = [inv EXCEPT ![i] = [@ EXCEPT !.st = "Negotiating", !.negs = @ + 1]]
  /\ registry' = registry \cup {ChallengeFamily(inv[i].first.data)}
  /\ UNCHANGED <<env, pc, tools, exitCode>>

\* the interceptor reads the payment requirements and calls the x402 client
BeginNegotiation(i) ==
  /\ inv[i].st = "PaymentRequired"
  /\ inv' = [inv EXCEPT ![i] = [@ EXCEPT !.st = "Negotiating", !.negs = @ + 1]]
  /\ UNCHANGED <<env, pc, registry, tools, exitCode>>

\* a client that signs for any family, registered or not
ResolveAny(family) == TRUE

\* the x402 client's lookup of the challenge's scheme family
Resolve(family) == family \in registry

\* an interceptor that re-issues the request whatever createPaymentPayload did
RetryAfterAnything(produced) == TRUE

\* the interceptor re-issues the request only with a payload in hand
RetryAfter(produced) == produced

\* a retry built afresh from the endpoint, without the original's parameters
RetryRequestNoParams(original, proof) ==
  [original EXCEPT !.city = Absent, !.date = Absent, !.proof = proof]

\* the retry: the original request's config with the payment header set
RetryRequest(original, proof) == [original EXCEPT !.proof = proof]

\* the rejection of a failed negotiation, caught by the handler
NegotiationError == PlainError("Failed to create payment payload")

\* an interceptor that calls createPaymentPayload a second time when the
\* first call has thrown
NegotiationFailedTriesAgain(r) ==
  IF r.negs < 2
    THEN [r EXCEPT !.st = "PaymentRequired"]
    ELSE Finish([r EXCEPT !.negError = TRUE],
                [resolved |-> FALSE, response |-> NoOutcome,
                 error |-> NegotiationError])

\* createPaymentPayload has thrown: the interceptor rejects the awaited
\* api.get with a plain Error and issues nothing
NegotiationFailed(r) ==
  Finish([r EXCEPT !.negError = TRUE],
         [resolved |-> FALSE, response |-> NoOutcome, error |-> NegotiationError])

\* createPaymentPayload settles: a proof and the retry, or the plain Error
Negotiate(i, signed) ==
  /\ inv[i].st = "Negotiating"
  /\ LET r == inv[i]
         family == ChallengeFamily(r.first.data)
         produced == Resolve(family) /\ signed
         proof == [family |-> family, challenge |-> r.first.data.v]
     IN inv' = [inv EXCEPT ![i] =
          IF RetryAfter(produced)
            THEN [r EXCEPT !.st = "Retrying",
                           !.isRetry = TRUE,
                           !.proofs = IF produced THEN Append(@, proof) ELSE @,
                           !.sent = Append(@, RetryRequest(r.sent[1],
                                        IF produced THEN proof ELSE NoProof))]
            ELSE NegotiationFailed(r)]
  /\ UNCHANGED <<env, pc, registry, tools, exitCode>>

\* the host has taken the result; the slot is free for another invocation
Complete(i) ==
  /\ inv[i].st \in Terminal
  /\ inv' = [inv EXCEPT ![i] = IdleInv]
  /\ UNCHANGED <<env, pc, registry, tools, exitCode>>

Next ==
  \/ Load
  \/ RegisterEvm
  \/ RegisterSvm
  \/ WrapClient
  \/ RegisterWeatherTool
  \/ RegisterDataTool
  \/ Connect
  \/ \E i \in Invs, tool \in ToolNames, city \in Cities, date \in Dates :
       Invoke(i, tool, city, date)
  \/ \E i \in Invs, o \in Outcomes : Receive(i, o)
  \/ \E i \in Invs : BeginNegotiation(i)
  \/ \E i \in Invs, signed \in BOOLEAN : Negotiate(i, signed)
  \/ \E i \in Invs : Complete(i)

Spec == Init /\ [][Next]_vars

(***************************************************************************)
(* Progress.  An attempt whose timer is armed settles: with the upstream's *)
(* answer, a network error, or the timeout.  The interceptor and the x402  *)
(* client run to completion on the event loop.  Nothing makes the host     *)
(* call a tool, and nothing makes an attempt without a timer settle.       *)
(***************************************************************************)
Fairness ==
  \A i \in Invs :
    /\ WF_vars(TimeoutArmed /\ \E o \in Outcomes : Receive(i, o))
    /\ WF_vars(BeginNegotiation(i))
    /\ WF_vars(\E signed \in BOOLEAN : Negotiate(i, signed))

SpecLive == Spec /\ Fairness

(***************************************************************************)
(* Concurrent invocations: the host dispatches several tool calls before   *)
(* the first has returned.  The same process and the same actions, over    *)
(* MaxConc invocations and a smaller choice of inputs and upstream answers.*)
(***************************************************************************)
ConcOutcomes ==
  {Response(200, {}, Body("temp21")),
   Response(404, {}, Body("not found")),
   Response(402, {}, ChallengeBody("evm")),
   Response(402, {}, ChallengeBody("svm")),
   TimeoutError}

InitConc ==
  /\ env \in [evm : KeyStates, svm : KeyStates, timeout : TimeoutStates]
  /\ pc = "load"
  /\ registry = {}
  /\ tools = {}
  /\ exitCode = 0
  /\ inv = [i \in ConcInvs |-> IdleInv]

NextConc ==
  \/ Load
  \/ RegisterEvm
  \/ RegisterSvm
  \/ WrapClient
  \/ RegisterWeatherTool
  \/ RegisterDataTool
  \/ Connect
  \/ \E i \in ConcInvs, tool \in ToolNames, city \in Cities :
       Invoke(i, tool, city, Undefined)
  \/ \E i \in ConcInvs, o \in ConcOutcomes : Receive(i, o)
  \/ \E i \in ConcInvs : BeginNegotiation(i)
  \/ \E i \in ConcInvs, signed \in BOOLEAN : Negotiate(i, signed)
  \/ \E i \in ConcInvs : Complete(i)

SpecConc == InitConc /\ [][NextConc]_vars

(***************************************************************************)
(* Properties                                                              *)
(***************************************************************************)
IsTerminal(r) == r.st \in Terminal
Calls(r) == Len(r.sent)
Is402(o) == o.kind = "response" /\ o.status = 402

\* C1: every invocation issues at most two upstream calls, the original and
\* at most one retry; when the retry is answered with 402 or fails at
\* transport level the invocation ends there, with that second outcome in
\* its envelope.
C1_AtMostTwoCalls ==
  \A i \in Invs :
    LET r == inv[i]
    IN /\ Calls(r) <= 2
       /\ (Calls(r) = 2 /\ r.st # "Retrying"
             /\ (Is402(r.last) \/ r.last.kind = "error"))
            => /\ r.st = "Failed"
               /\ r.result.ok = FALSE
               /\ r.result.upstream.status = r.last.status
               /\ r.result.upstream.data =
                    (IF Is402(r.last) THEN r.last.data ELSE Message(r.last.message))

\* an invocation whose retry was answered with 402 again has ended
C1_Witness ==
  \E i \in Invs :
    Calls(inv[i]) = 2 /\ inv[i].st = "Failed" /\ Is402(inv[i].last)

\* C2: whatever the upstream does, an invocation that has ended has returned
\* exactly one envelope as valid text (the envelope's own rendering or the
\* fallback), an invocation still running has returned none, and no
\* exception has left a handler.
C2_OneEnvelopeNoThrow ==
  \A i \in Invs :
    LET r == inv[i]
    IN /\ ~r.thrown
       /\ r.returned = (IF IsTerminal(r) THEN 1 ELSE 0)
       /\ IsTerminal(r) =>
            /\ r.text.valid
            /\ r.text = (IF Serializable(r.result)
                           THEN JsonText(r.result) ELSE FallbackText)

\* a failed invocation whose error body cannot be serialized has returned
C2_Witness ==
  \E i \in Invs :
    /\ inv[i].st = "Failed"
    /\ inv[i].result.upstream.data = Body("Cyclic")
    /\ inv[i].returned = 1
    /\ inv[i].text = FallbackText

NegotiationErrorData == Message("Error: Failed to create payment payload")

\* the original request was answered with a 402 naming an unregistered family
UnregisteredChallenge(r) ==
  /\ IsTerminal(r)
  /\ Is402(r.first)
  /\ ChallengeFamily(r.first.data) \notin registry

FromLastResponse(r) ==
  IsTerminal(r) /\ ~r.negError /\ r.last.kind = "response"

\* C4 as stated: every response whose status is not 402 ends the invocation
\* Succeeded with ok = true, that status and the raw body, and a non-402
\* original response starts no negotiation and no retry.
C4_Original ==
  \A i \in Invs :
    LET r == inv[i]
    IN (FromLastResponse(r) /\ r.last.status # 402) =>
         /\ r.st = "Succeeded"
         /\ r.result.ok = TRUE
         /\ r.result.upstream.status = r.last.status
         /\ r.result.upstream.data = r.last.data
         /\ (r.first.status # 402 => r.negs = 0 /\ Calls(r) = 1)

\* C4 amended: a 2xx response ends the invocation Succeeded with ok = true,
\* that status and the raw body; any other status except 402 starts no
\* negotiation and no retry but ends it Failed with ok = false, that status
\* and the response body (the error's message when there is no body); a
\* transport error ends it Failed with a null status.
C4_StatusClassification ==
  \A i \in Invs :
    LET r == inv[i]
    IN /\ (FromLastResponse(r) /\ r.last.status # 402) =>
            /\ r.result.upstream.status = r.last.status
            /\ (r.first.status # 402 => r.negs = 0 /\ Calls(r) = 1)
            /\ IF r.last.status >= 200 /\ r.last.status < 300
                 THEN /\ r.st = "Succeeded"
                      /\ r.result.ok = TRUE
                      /\ r.result.upstream.data = r.last.data
                 ELSE /\ r.st = "Failed"
                      /\ r.result.ok = FALSE
                      /\ r.result.upstream.data =
                           (IF r.last.data = NoBody
                              THEN Message("Request failed with status code")
                              ELSE r.last.data)
       /\ (IsTerminal(r) /\ r.last.kind = "error") =>
            /\ r.st = "Failed"
            /\ r.result.upstream.status = NullStatus

\* an original request answered with 404 has ended Failed without a retry
C4_Witness ==
  \E i \in Invs :
    /\ inv[i].st = "Failed"
    /\ inv[i].first = Response(404, {}, Body("not found"))
    /\ Calls(inv[i]) = 1
    /\ inv[i].result.upstream.status = 404

\* the receipt value a header map carries under some case variant of a name
Carried(map, keys) == {p \in map : p[1] \in keys /\ p[2].kind = "str"}

\* C5: receipt extraction is case-insensitive in the header name: when the
\* last response carries the receipt under exactly one case variant of
\* payment-response (or of x-payment-response), the envelope records that
\* value, and it records null only when no variant of the name is present.
C5_CaseInsensitive ==
  \A i \in Invs :
    LET r == inv[i]
        up == r.result.upstream
    IN FromLastResponse(r) =>
         /\ \A p \in Carried(r.last.headers, PaymentKeys) :
              up.payment_response_header = p[2].items[1]
         /\ \A p \in Carried(r.last.headers, XPaymentKeys) :
              up.x_payment_response_header = p[2].items[1]
         /\ up.payment_response_header = Null =>
              ~\E p \in r.last.headers : p[1] \in PaymentKeys
         /\ up.x_payment_response_header = Null =>
              ~\E p \in r.last.headers : p[1] \in XPaymentKeys

\* the original 402 was paid and the retry answered with 200
PaidRetry200(r) ==
  /\ IsTerminal(r)
  /\ Is402(r.first)
  /\ Calls(r) = 2
  /\ r.last.kind = "response"
  /\ r.last.status = 200

\* C6: when the original request is answered with a 402 naming a registered
\* family and the retry carrying the proof is answered with 200, the
\* envelope has ok = true, status 200 and the retried response's body, and
\* neither the envelope nor the returned text holds the status or the body
\* of the original 402.
C6_PaidRetrySucceeds ==
  \A i \in Invs :
    LET r == inv[i]
    IN PaidRetry200(r) =>
         /\ ChallengeFamily(r.first.data) \in registry
         /\ r.sent[2].proof # NoProof
         /\ r.st = "Succeeded"
         /\ r.result.ok = TRUE
         /\ r.result.upstream.status = 200
         /\ r.result.upstream.data = r.last.data
         /\ r.result.upstream.data # r.first.data
         /\ r.text.doc.upstream.status # 402
         /\ r.text.doc.upstream.data # r.first.data

\* a paid retry answered with 200 has ended Succeeded
C6_Witness ==
  \E i \in Invs :
    /\ PaidRetry200(inv[i])
    /\ inv[i].last.data = Body("temp21")
    /\ inv[i].result.ok = TRUE

\* C7: an attempt, the original or the retry, that fails at transport level
\* ends the invocation Failed with ok = false, a null status, both receipt
\* headers null and data an object carrying the error's message.
C7_TransportFailure ==
  \A i \in Invs :
    LET r == inv[i]
    IN (IsTerminal(r) /\ r.last.kind = "error") =>
         /\ r.st = "Failed"
         /\ r.result.ok = FALSE
         /\ r.result.upstream.status = NullStatus
         /\ r.result.upstream.payment_response_header = Null
         /\ r.result.upstream.x_payment_response_header = Null
         /\ r.result.upstream.data = Message(r.last.message)
         /\ r.text = JsonText(r.result)

\* the retry of a paid request timed out and the invocation has ended
C7_Witness ==
  \E i \in Invs :
    /\ inv[i].st = "Failed"
    /\ Calls(inv[i]) = 2
    /\ inv[i].last = TimeoutError

\* some upstream call has been issued
SomeCall == \E i \in Invs : Calls(inv[i]) > 0

\* C8: with neither secret set the process stops at the top-level check,
\* before main() runs; in no state is a tool registered, the server serving
\* or an upstream call issued while the registry is empty.
C8_NoSecretFailsFast ==
  /\ (tools # {} \/ pc = "serving" \/ SomeCall) => registry # {}
  /\ (~Truthy(env.evm) /\ ~Truthy(env.svm)) =>
       /\ pc \in {"load", "crashed"}
       /\ tools = {}
       /\ ~SomeCall
       /\ (pc = "crashed" => exitCode # 0)

\* the process has stopped at the check with both secrets missing
C8_Witness ==
  /\ pc = "crashed"
  /\ env.evm = "unset"
  /\ env.svm = "empty"
  /\ tools = {}

\* C9: a secret that is present but malformed, for either family and also
\* beside a valid secret of the other family, is fatal at startup: the
\* process never gets past signer construction, registers no tool, serves
\* no request, and when it has exited its exit code is non-zero.
C9_MalformedSecretFatal ==
  (env.evm = "malformed" \/ env.svm = "malformed") =>
    /\ pc \in {"load", "main", "evmDone", "exited"}
    /\ (pc = "evmDone" => env.evm # "malformed")
    /\ tools = {}
    /\ ~SomeCall
    /\ (pc = "exited" => exitCode # 0)

\* the process has exited on a malformed SVM secret beside a valid EVM one
C9_Witness ==
  /\ pc = "exited"
  /\ env.evm = "valid"
  /\ env.svm = "malformed"
  /\ registry = {"evm"}
  /\ exitCode = 1

\* the steps an invocation may take
AllowedSteps ==
  {<<"idle", "Sending">>,
   <<"Sending", "Succeeded">>, <<"Sending", "Failed">>,
   <<"Sending", "PaymentRequired">>,
   <<"PaymentRequired", "Negotiating">>,
   <<"Negotiating", "Retrying">>, <<"Negotiating", "Failed">>,
   <<"Retrying", "Succeeded">>, <<"Retrying", "Failed">>,
   <<"Succeeded", "idle">>, <<"Failed", "idle">>}

\* C10: an invocation moves only along Sending -> PaymentRequired ->
\* Negotiating -> Retrying (or to a terminal state); a request is issued
\* either as the original, from idle, or as the retry, and the retry only
\* from Negotiating, after the original was answered with 402 and with the
\* proof just produced for that challenge attached.
C10_StrictSequencing ==
  [][\A i \in Invs :
       LET a == inv[i]
           b == inv'[i]
       IN /\ a.st # b.st => <<a.st, b.st>> \in AllowedSteps
          /\ (Calls(b) > Calls(a)) =>
               \/ a.st = "idle" /\ Calls(b) = 1 /\ b.sent[1].proof = NoProof
               \/ /\ a.st = "Negotiating"
                  /\ b.st = "Retrying"
                  /\ Calls(a) = 1
                  /\ Calls(b) = 2
                  /\ Is402(a.first)
                  /\ a.negs = 1
                  /\ a.proofs = <<>>
                  /\ Len(b.proofs) = 1
                  /\ b.proofs[1].challenge = a.first.data.v
                  /\ b.sent[2].proof = b.proofs[1]
                  /\ ~b.negError]_vars

\* a retry is in flight
C10_Witness ==
  \E i \in Invs :
    inv[i].st = "Retrying" /\ Calls(inv[i]) = 2 /\ Len(inv[i].proofs) = 1

\* C11: negotiation starts only on a 402 answer to the original request: an
\* invocation that has negotiated had its original answered with 402, an
\* ended invocation has negotiated exactly when its original was answered
\* with 402, and after any other status or a transport error there is no
\* negotiation and no proof.
C11_NegotiateOnlyOn402 ==
  \A i \in Invs :
    LET r == inv[i]
    IN /\ r.negs <= 1
       /\ (r.negs > 0 \/ r.proofs # <<>>
             \/ r.st \in {"PaymentRequired", "Negotiating", "Retrying"})
            => Is402(r.first)
       /\ IsTerminal(r) => (r.negs = 1 <=> Is402(r.first))
       /\ (IsTerminal(r) /\ ~Is402(r.first)) =>
            /\ r.negs = 0
            /\ r.proofs = <<>>
            /\ Calls(r) = 1

\* an invocation whose original was answered with 500 has ended unnegotiated
C11_Witness ==
  \E i \in Invs :
    /\ IsTerminal(inv[i])
    /\ inv[i].first.kind = "response"
    /\ inv[i].first.status = 500
    /\ inv[i].negs = 0

\* the envelope a failure with the response o in hand is to carry
FailedWithResponse(r, o) ==
  /\ r.result.ok = FALSE
  /\ r.result.upstream.status = o.status
  /\ r.result.upstream.data =
       (IF o.data = NoBody THEN Message("Request failed with status code")
                           ELSE o.data)
  /\ r.result.upstream.payment_response_header =
       OrNull(getHeaderValue(HeadersOf(o), "payment-response"))
  /\ r.result.upstream.x_payment_response_header =
       OrNull(getHeaderValue(HeadersOf(o), "x-payment-response"))

ClientBuilt == {"clientReady", "weatherTool", "dataTool", "serving"}

OwnResult(r) ==
  IF Is402(r.first) /\ Calls(r) = 1
    THEN FailureEnvelope(r.req, NegotiationError)
    ELSE Handler(r.req, Settle(r.last)).result

\* C15: concurrent invocations do not interfere: a step of one invocation
\* leaves every other invocation as it was, each invocation keeps its own
\* bound of two calls and negotiates on its own 402 whatever the others are
\* doing, and the envelope of an ended invocation is the one its own request
\* and the answers to its own calls give.
C15_NoInterference ==
  [][\A i \in ConcInvs :
       LET a == inv[i]
           b == inv'[i]
       IN /\ a # b => \A j \in ConcInvs \ {i} : inv'[j] = inv[j]
          /\ Calls(b) <= 2
          /\ IsTerminal(b) =>
               /\ Is402(b.first) => b.negs = 1
               /\ b.result = OwnResult(b)
               /\ b.result.request.tool = b.req.tool
               /\ b.returned = 1]_vars

\* one invocation has ended Succeeded on its paid retry while another,
\* started before that, is still negotiating its own challenge
C15_Witness ==
  \E i, j \in ConcInvs :
    /\ i # j
    /\ inv[i].st = "Succeeded"
    /\ Calls(inv[i]) = 2
    /\ inv[j].st = "Negotiating"

\* C16: a proof is produced for one challenge and attached to one request:
\* an invocation holds at most one proof, made from the challenge its own
\* original was answered with, and carries it on its retry alone; every
\* original request, also one issued while or after another invocation
\* paid, goes out without a proof, and an idle slot keeps none.
C16_ProofUsedOnce ==
  \A i \in ConcInvs :
    LET r == inv[i]
    IN /\ Len(r.proofs) <= 1
       /\ Calls(r) >= 1 => r.sent[1].proof = NoProof
       /\ r.proofs # <<>> <=> Calls(r) = 2
       /\ Calls(r) = 2 =>
            /\ Is402(r.first)
            /\ r.proofs[1].challenge = r.first.data.v
            /\ r.proofs[1].family = ChallengeFamily(r.first.data)
            /\ r.sent[2].proof = r.proofs[1]
       /\ r.st = "idle" => r.proofs = <<>> /\ r.sent = <<>>

\* an original request is in flight while another invocation's paid retry is
C16_Witness ==
  \E i, j \in ConcInvs :
    /\ i # j
    /\ inv[i].st = "Retrying"
    /\ inv[i].sent[2].proof # NoProof
    /\ inv[j].st = "Sending"
    /\ inv[j].sent[1].proof = NoProof

\* C17: proof construction is attempted at most once per invocation; when it
\* fails (the signing fails, or no scheme is registered) the invocation has
\* issued its original request alone, holds no proof, and ends Failed with an
\* envelope whose ok is false.
C17_SignOnce ==
  \A i \in Invs :
    LET r == inv[i]
    IN /\ r.negs <= 1
       /\ r.negError =>
            /\ r.negs = 1
            /\ r.st = "Failed"
            /\ Calls(r) = 1
            /\ ~r.isRetry
            /\ r.proofs = <<>>
            /\ r.result.ok = FALSE
            /\ r.returned = 1

\* the signing of a challenge of a registered family has failed
C17_Witness ==
  \E i \in Invs :
    /\ inv[i].negError
    /\ ChallengeFamily(inv[i].first.data) \in registry
    /\ inv[i].st = "Failed"

InFlight == {"Sending", "PaymentRequired", "Negotiating", "Retrying"}

\* C18: every invocation eventually reaches Succeeded or Failed, whatever
\* request timeout is configured; an attempt that times out ends the
\* invocation Failed; and an ended invocation makes no further transition
\* and no further upstream call (its slot only stays, or is freed).
C18_Terminates ==
  /\ \A i \in Invs : (inv[i].st \in InFlight) ~> IsTerminal(inv[i])
  /\ [](\A i \in Invs :
          IsTerminal(inv[i]) /\ inv[i].last = TimeoutError
            => inv[i].st = "Failed" /\ inv[i].returned = 1)
  /\ [][\A i \in Invs :
          IsTerminal(inv[i]) => inv'[i] = inv[i] \/ inv'[i] = IdleInv]_vars

\* with the timer armed (REQUEST_TIMEOUT_MS not set) every invocation ends
C18_TerminatesWithTimer ==
  \A i \in Invs :
    (TimeoutArmed /\ inv[i].st \in InFlight) ~> IsTerminal(inv[i])

\* C19: serializing the envelope never throws; the text of an envelope
\* whose payload cannot be serialized (a reference cycle in upstream.data)
\* is the rendering of the fixed fallback object and holds nothing of the
\* envelope, and any other envelope's text is its own JSON: the same ok,
\* request and upstream fields, with an undefined data left out.
C19_SerializationTotal ==
  \A i \in Invs :
    LET r == inv[i]
        cyclic == r.result.upstream.data = Body("Cyclic")
    IN IsTerminal(r) =>
         /\ ~r.thrown
         /\ r.text.valid
         /\ r.text.fallback <=> cyclic
         /\ cyclic => r.text.doc = NoEnvelope
         /\ ~cyclic =>
              /\ r.text.doc.ok = r.result.ok
              /\ r.text.doc.request = r.result.request
              /\ r.text.doc.upstream.status = r.result.upstream.status
              /\ r.text.doc.upstream.payment_response_header
                   = r.result.upstream.payment_response_header
              /\ r.text.doc.upstream.x_payment_response_header
                   = r.result.upstream.x_payment_response_header
              /\ r.text.doc.upstream.data =
                   (IF r.result.upstream.data = NoBody
                      THEN [kind |-> "omitted", v |-> ""]
                      ELSE r.result.upstream.data)

\* a 200 response whose body cannot be serialized: the try branch has
\* returned the fallback text
C19_Witness ==
  \E i \in Invs :
    /\ inv[i].st = "Succeeded"
    /\ inv[i].last = Response(200, {}, Body("Cyclic"))
    /\ inv[i].text = FallbackText
    /\ ~inv[i].thrown

\* C20: an envelope with ok true carries a number as status, the status of
\* the last response of its invocation, and never 402; an envelope whose
\* status is null has ok false; and the request section of every envelope,
\* from the try branch or from the catch branch, echoes the tool's name and
\* its inputs: city as given and date as given, or null when omitted.
C20_EnvelopeConsistent ==
  \A i \in Invs :
    LET r == inv[i]
        e == r.result
    IN IsTerminal(r) =>
         /\ e.ok =>
              /\ r.last.kind = "response"
              /\ e.upstream.status = r.last.status
              /\ e.upstream.status # NullStatus
              /\ e.upstream.status # 402
         /\ e.upstream.status = NullStatus => ~e.ok
         /\ e.request.tool = r.req.tool
         /\ e.request.tool \in ToolNames
         /\ r.req.tool = "get-weather" =>
              /\ e.request.city = r.req.city
              /\ e.request.city = r.sent[1].city
              /\ e.request.date =
                   (IF r.req.date = Undefined THEN Null ELSE r.req.date)
         /\ r.req.tool = "get-data-from-resource-server" =>
              /\ e.request.city = Absent
              /\ e.request.date = Absent

\* a get-weather call without a date has failed without a response: status
\* null, ok false, date echoed as null
C20_Witness ==
  \E i \in Invs :
    /\ inv[i].st = "Failed"
    /\ inv[i].req = Args("get-weather", "Beijing", Undefined)
    /\ inv[i].result.upstream.status = NullStatus
    /\ inv[i].result.request.date = Null
    /\ ~inv[i].result.ok

====
